---- MODULE Spec2Model ----
(***************************************************************************)
(* Twilio <-> OpenAI Realtime relay: one call session of handleTwilio      *)
(* (the ws-client variant with loopback mode, src/unnamed/part_000 62-168).*)
(*                                                                         *)
(* The state is the closure of one handleTwilio call (mode, streamSid,     *)
(* oaiOpen), the two sockets it owns (their readyState, the arguments of   *)
(* the send() calls made on them in order, the number of close() calls     *)
(* made on them) and the inbound frames handled so far.  Every event       *)
(* handler the code registers is one action: the handler runs to           *)
(* completion (Node runs one callback at a time).                          *)
(*                                                                         *)
(* Socket life cycle, as the handlers can observe it:                      *)
(*   telephony  open -> closing (ws.close() called) -> closed ("close")    *)
(*   backend    connecting -> open ("open") -> closing -> closed           *)
(*              connecting -> aborting (oai.close() before "open")         *)
(*              any live state -> errored ("error") -> closed ("close")    *)
(*   an "error" on the telephony socket finds no listener: emit throws,    *)
(*   the exception is uncaught and the process exits (both "destroyed")    *)
(* "message" is emitted until "close"; "open", "error" and "close" are     *)
(* emitted at most once per socket.  A send() or close() on a socket that  *)
(* is no longer open does not throw; the call is recorded all the same.    *)
(***************************************************************************)
EXTENDS Integers, Sequences, FiniteSets, TLC

\* ----------------------------------------------------------------- bounds
MaxTwilioFrames == 3    \* telephony frames delivered in one session
MaxBackendFrames == 1   \* backend frames delivered in one session

\* ------------------------------------------------------------- JS values
Null == "<null>"             \* let streamSid = null
Undefined == "<undefined>"   \* msg.start?.streamSid of a start without it
Sids == {"MZ1", "MZ2"}
Payloads == {"a", "b"}

\* JavaScript truthiness of the values a stream id or a delta can hold.
Truthy(v) == v \notin {Null, Undefined, ""}

\* ----------------------------------------------------------- raw frames
\* A raw telephony frame is the text handed to the "message" handler:
\* either text that is no JSON, or the JSON text of an object.  For an
\* object, `event` is msg.event, `sid` is msg.start?.streamSid (Undefined
\* when start or start.streamSid is missing), `media` says whether
\* msg.media is an object, `payload` is msg.media.payload.
TwFrame(json, event, sid, media, payload) ==
    [json |-> json, event |-> event, sid |-> sid, media |-> media, payload |-> payload]

TwilioFrames ==
    {TwFrame(FALSE, "", Undefined, FALSE, "")}
      \cup {TwFrame(TRUE, "start", s, FALSE, "") : s \in Sids \cup {Undefined}}
      \cup {TwFrame(TRUE, "media", Undefined, TRUE, p) : p \in Payloads}
      \cup {TwFrame(TRUE, "media", Undefined, FALSE, "")}
      \cup {TwFrame(TRUE, "stop", Undefined, FALSE, "")}
      \cup {TwFrame(TRUE, "mark", Undefined, FALSE, "")}

\* A raw backend frame: `type` is obj.type, `delta` is obj.delta
\* (Undefined when missing, "" when empty).
OaiFrame(json, type, delta) == [json |-> json, type |-> type, delta |-> delta]

BackendFrames ==
    {OaiFrame(FALSE, "", Undefined)}
      \cup {OaiFrame(TRUE, "response.audio.delta", d) : d \in Payloads \cup {""}}
      \cup {OaiFrame(TRUE, "response.done", "a")}

\* JSON.parse(buf.toString()): the object, or a thrown SyntaxError.
SyntaxError == [thrown |-> TRUE]
JSONParse(buf) == IF buf.json THEN [thrown |-> FALSE, obj |-> buf] ELSE SyntaxError

\* ------------------------------------------------------ outbound messages
\* JSON.stringify({ event: "media", streamSid, media: { payload } })
MediaFrame(sid, payload) == [event |-> "media", streamSid |-> sid, payload |-> payload]
\* JSON.stringify({ type: "session.update", session: {...} })
SessionUpdate == [type |-> "session.update", audio |-> ""]
\* JSON.stringify({ type: "response.create", response: {...} })
ResponseCreate == [type |-> "response.create", audio |-> ""]
\* JSON.stringify({ type: "input_audio_buffer.append", audio })
AudioAppend(payload) == [type |-> "input_audio_buffer.append", audio |-> payload]

VARIABLES session
vars == <<session>>

\* Before the upgrade request no session exists.
NoSession ==
    [mode |-> "none", streamSid |-> Null, oaiOpen |-> FALSE,
     wsState |-> "none", oaiState |-> "none",
     wsSent |-> <<>>, oaiSent |-> <<>>,
     wsCloseCalls |-> 0, oaiCloseCalls |-> 0,
     oaiCreated |-> 0, oaiOpened |-> FALSE,
     twIn |-> <<>>, oaiCount |-> 0, oaiLast |-> OaiFrame(FALSE, "", Undefined),
     stopSeen |-> FALSE, wsCloseAtStop |-> 0, oaiCloseAtStop |-> 0]

Init == session = NoSession

\* ------------------------------------------------------- socket methods
\* ws.send(text): the call is recorded with its argument.
ws_send(s, frame) == [s EXCEPT !.wsSent = Append(@, frame)]
\* oai.send(text)
oai_send(s, msg) == [s EXCEPT !.oaiSent = Append(@, msg)]
\* ws.close(): a close request; it moves an open socket to closing and is
\* a no-op on a socket that is already closing or closed.
ws_close(s) ==
    [s EXCEPT !.wsCloseCalls = @ + 1,
              !.wsState = IF @ = "open" THEN "closing" ELSE @]
\* oai.close(): a close request; on a socket still connecting it aborts the
\* handshake (the socket then emits "error" and "close", never "open").
oai_close(s) ==
    [s EXCEPT !.oaiCloseCalls = @ + 1,
              !.oaiState = CASE @ = "open" -> "closing"
                             [] @ = "connecting" -> "aborting"
                             [] OTHER -> @]

\* ------------------------------------------------------------- handlers
\* Variant of the loopback handler that addresses the echo with the stream
\* id of the media message itself instead of the recorded one.
LoopbackOnMessage_WrongSid(s, buf) ==
    LET r == JSONParse(buf) IN
    IF r.thrown THEN s
    ELSE LET msg == r.obj IN
         IF msg.event = "start" THEN [s EXCEPT !.streamSid = msg.sid]
         ELSE IF msg.event = "media" /\ Truthy(s.streamSid)
              THEN IF msg.media THEN ws_send(s, MediaFrame(msg.sid, msg.payload))
                   ELSE s
         ELSE IF msg.event = "stop" THEN ws_close(s)
         ELSE s

\* Loopback ws.on("message"): echo media back once the stream id is known.
LoopbackOnMessage(s, buf) ==
    LET r == JSONParse(buf) IN
    IF r.thrown THEN s
    ELSE LET msg == r.obj IN
         IF msg.event = "start" THEN [s EXCEPT !.streamSid = msg.sid]
         ELSE IF msg.event = "media" /\ Truthy(s.streamSid)
              THEN IF msg.media THEN ws_send(s, MediaFrame(s.streamSid, msg.payload))
                   ELSE s   \* msg.media.payload throws a TypeError, caught
         ELSE IF msg.event = "stop" THEN ws_close(s)
         ELSE s

\* Variant of the open handler that sends the initial prompt before the
\* session configuration.
OaiOnOpen_PromptFirst(s) ==
    oai_send(oai_send([s EXCEPT !.oaiOpen = TRUE], ResponseCreate), SessionUpdate)

\* oai.on("open"): mark the backend ready, configure the session, send the
\* initial prompt.
OaiOnOpen(s) ==
    oai_send(oai_send([s EXCEPT !.oaiOpen = TRUE], SessionUpdate), ResponseCreate)

\* Variant of the bridge handler without the oaiOpen test (as in the
\* fetch-based variants of the file).
TwilioOnMessage_NoReadyCheck(s, buf) ==
    LET r == JSONParse(buf) IN
    IF r.thrown THEN s
    ELSE LET msg == r.obj IN
         IF msg.event = "start" THEN [s EXCEPT !.streamSid = msg.sid]
         ELSE IF msg.event = "media" /\ Truthy(s.streamSid)
              THEN IF msg.media THEN oai_send(s, AudioAppend(msg.payload))
                   ELSE s
         ELSE IF msg.event = "stop" THEN ws_close(oai_close(s))
         ELSE s

\* Variant of the bridge handler whose stop branch closes the backend only.
TwilioOnMessage_StopBackendOnly(s, buf) ==
    LET r == JSONParse(buf) IN
    IF r.thrown THEN s
    ELSE LET msg == r.obj IN
         IF msg.event = "start" THEN [s EXCEPT !.streamSid = msg.sid]
         ELSE IF msg.event = "media" /\ Truthy(s.streamSid) /\ s.oaiOpen
              THEN IF msg.media THEN oai_send(s, AudioAppend(msg.payload))
                   ELSE s
         ELSE IF msg.event = "stop" THEN oai_close(s)
         ELSE s

\* Variant of the bridge handler whose catch block hangs up the call.
TwilioOnMessage_CloseOnParseError(s, buf) ==
    LET r == JSONParse(buf) IN
    IF r.thrown THEN ws_close(oai_close(s))
    ELSE LET msg == r.obj IN
         IF msg.event = "start" THEN [s EXCEPT !.streamSid = msg.sid]
         ELSE IF msg.event = "media" /\ Truthy(s.streamSid) /\ s.oaiOpen
              THEN IF msg.media THEN oai_send(s, AudioAppend(msg.payload))
                   ELSE s
         ELSE IF msg.event = "stop" THEN ws_close(oai_close(s))
         ELSE s

\* Variant of the bridge handler that sends every append twice.
TwilioOnMessage_SendTwice(s, buf) ==
    LET r == JSONParse(buf) IN
    IF r.thrown THEN s
    ELSE LET msg == r.obj IN
         IF msg.event = "start" THEN [s EXCEPT !.streamSid = msg.sid]
         ELSE IF msg.event = "media" /\ Truthy(s.streamSid) /\ s.oaiOpen
              THEN IF msg.media
                   THEN oai_send(oai_send(s, AudioAppend(msg.payload)),
                                 AudioAppend(msg.payload))
                   ELSE s
         ELSE IF msg.event = "stop" THEN ws_close(oai_close(s))
         ELSE s

\* Bridge ws.on("message"): Twilio -> OpenAI.
TwilioOnMessage(s, buf) ==
    LET r == JSONParse(buf) IN
    IF r.thrown THEN s
    ELSE LET msg == r.obj IN
         IF msg.event = "start" THEN [s EXCEPT !.streamSid = msg.sid]
         ELSE IF msg.event = "media" /\ Truthy(s.streamSid) /\ s.oaiOpen
              THEN IF msg.media THEN oai_send(s, AudioAppend(msg.payload))
                   ELSE s   \* msg.media.payload throws a TypeError, caught
         ELSE IF msg.event = "stop" THEN ws_close(oai_close(s))
         ELSE s

\* Variant of the backend handler that forwards the delta of any event.
OaiOnMessage_NoTypeCheck(s, data) ==
    LET r == JSONParse(data) IN
    IF r.thrown THEN s
    ELSE LET obj == r.obj IN
         IF Truthy(obj.delta) /\ Truthy(s.streamSid)
         THEN ws_send(s, MediaFrame(s.streamSid, obj.delta))
         ELSE s

\* oai.on("message"): OpenAI -> Twilio.
OaiOnMessage(s, data) ==
    LET r == JSONParse(data) IN
    IF r.thrown THEN s
    ELSE LET obj == r.obj IN
         IF obj.type = "response.audio.delta" /\ Truthy(obj.delta) /\ Truthy(s.streamSid)
         THEN ws_send(s, MediaFrame(s.streamSid, obj.delta))
         ELSE s

\* oai.on("close")
OaiOnClose(s) == ws_close(s)
\* Variant: an error handler that only logs.
OaiOnError_LogOnly(s) == s
\* oai.on("error")
OaiOnError(s) == ws_close(s)
\* Variant: no close handler on the telephony socket.
WsOnClose_Missing(s) == s
\* ws.on("close")
WsOnClose(s) == oai_close(s)

\* new WebSocket(url, "realtime", {headers}): the backend socket, connecting.
NewBackendSocket(s) == [s EXCEPT !.oaiState = "connecting", !.oaiCreated = @ + 1]

\* Variant of handleTwilio whose loopback branch lacks the return.
handleTwilio_NoReturn(s, loop) ==
    IF loop THEN NewBackendSocket([s EXCEPT !.mode = "loopback", !.wsState = "open"])
    ELSE NewBackendSocket([s EXCEPT !.mode = "bridge", !.wsState = "open"])

\* handleTwilio(ws, req): the mode is read from the query string; loopback
\* returns before the backend socket is created.
handleTwilio(s, loop) ==
    IF loop THEN [s EXCEPT !.mode = "loopback", !.wsState = "open"]
    ELSE NewBackendSocket([s EXCEPT !.mode = "bridge", !.wsState = "open"])

\* --------------------------------------------------------------- actions
\* server.on("upgrade"): a telephony connection is accepted on /twilio.
Upgrade(loop) ==
    /\ session.mode = "none"
    /\ session' = handleTwilio(session, loop)

\* The handled frame is logged; the first stop also records how many close
\* requests each connection had received before it.
LogTwilio(s, buf) ==
    LET first == buf.json /\ buf.event = "stop" /\ ~s.stopSeen IN
    [s EXCEPT !.twIn = Append(@, buf),
              !.stopSeen = @ \/ first,
              !.wsCloseAtStop = IF first THEN s.wsCloseCalls ELSE @,
              !.oaiCloseAtStop = IF first THEN s.oaiCloseCalls ELSE @]

\* A telephony frame arrives.  Frames already in flight are still delivered
\* after ws.close() was called, until the socket emits "close".
TwilioMessage(buf) ==
    /\ session.wsState \in {"open", "closing"}
    /\ Len(session.twIn) < MaxTwilioFrames
    /\ session' = IF session.mode = "loopback"
                  THEN LoopbackOnMessage(LogTwilio(session, buf), buf)
                  ELSE TwilioOnMessage(LogTwilio(session, buf), buf)

\* The telephony socket emits "close" (once).  Loopback registers no
\* handler for it.
TwilioClose ==
    /\ session.wsState \in {"open", "closing"}
    /\ session' = IF session.mode = "loopback"
                  THEN [session EXCEPT !.wsState = "closed"]
                  ELSE WsOnClose([session EXCEPT !.wsState = "closed"])

\* Exit of the Node process on an uncaught exception: its sockets are
\* destroyed and no handler runs any more.
ProcessExit(s) ==
    [s EXCEPT !.wsState = "destroyed",
              !.oaiState = IF @ \in {"none", "closed"} THEN @ ELSE "destroyed"]

\* The telephony socket emits "error" (the peer violated the protocol).
\* handleTwilio registers "message" and "close" listeners on ws but no
\* "error" listener, in bridge mode as in loopback mode, so the emit
\* throws and the process exits.
TwilioError ==
    /\ session.wsState \in {"open", "closing"}
    /\ session' = ProcessExit(session)

\* The backend socket completes its handshake and emits "open".
OaiOpen ==
    /\ session.oaiState = "connecting"
    /\ session' = OaiOnOpen([session EXCEPT !.oaiState = "open", !.oaiOpened = TRUE])

\* A backend frame arrives (also after oai.close(), until "close").
OaiMessage(data) ==
    /\ session.oaiState \in {"open", "closing"}
    /\ session.oaiCount < MaxBackendFrames
    /\ session' = OaiOnMessage([session EXCEPT !.oaiCount = @ + 1, !.oaiLast = data], data)

\* The backend socket emits "error": the connection attempt failed, the
\* handshake was aborted, or an open connection broke.  "close" follows.
OaiError ==
    /\ session.oaiState \in {"connecting", "aborting", "open", "closing"}
    /\ session' = OaiOnError([session EXCEPT !.oaiState = "errored"])

\* The backend socket emits "close" (once).
OaiClose ==
    /\ session.oaiState \in {"open", "closing", "errored"}
    /\ session' = OaiOnClose([session EXCEPT !.oaiState = "closed"])

Next ==
    \/ \E loop \in BOOLEAN : Upgrade(loop)
    \/ \E buf \in TwilioFrames : TwilioMessage(buf)
    \/ TwilioClose
    \/ TwilioError
    \/ OaiOpen
    \/ \E data \in BackendFrames : OaiMessage(data)
    \/ OaiError
    \/ OaiClose

Spec == Init /\ [][Next]_vars
\* --------------------------------------------------------------- fairness
\* What the sockets guarantee once a close is under way: after ws.close()
\* or oai.close() the closing handshake completes or times out and the
\* socket emits "close"; an aborted handshake emits "error"; an errored
\* socket emits "close".  Nothing obliges a healthy open socket to close.
TwilioCloseDelivery == session.wsState = "closing" /\ TwilioClose
OaiCloseDelivery == session.oaiState \in {"closing", "errored"} /\ OaiClose
OaiAbortDelivery == session.oaiState = "aborting" /\ OaiError

\* The tear-down does not depend on what the frames carry: the fair
\* specification delivers one frame of each kind the handlers tell apart.
LiveTwilioFrames ==
    {TwFrame(TRUE, "start", "MZ1", FALSE, ""),
     TwFrame(TRUE, "media", Undefined, TRUE, "a"),
     TwFrame(TRUE, "stop", Undefined, FALSE, "")}
LiveBackendFrames == {OaiFrame(TRUE, "response.audio.delta", "a")}

LiveNext ==
    \/ \E loop \in BOOLEAN : Upgrade(loop)
    \/ \E buf \in LiveTwilioFrames : TwilioMessage(buf)
    \/ TwilioClose
    \/ TwilioError
    \/ OaiOpen
    \/ \E data \in LiveBackendFrames : OaiMessage(data)
    \/ OaiError
    \/ OaiClose

LiveSpec ==
    /\ Init /\ [][LiveNext]_vars
    /\ WF_vars(TwilioCloseDelivery)
    /\ WF_vars(OaiCloseDelivery)
    /\ WF_vars(OaiAbortDelivery)

\* ------------------------------------------- fetch-based bridge (server.js)
\* handleTwilio of src/server.js awaits fetch() before it registers any
\* listener: while the promise is pending the telephony socket is open with
\* no "message" and no "close" listener, and events it emits are lost.  The
\* session record is reused: oaiState = "connecting" is the pending fetch,
\* oaiOpened says that resp.webSocket was accepted and the listeners are
\* registered; there is no oaiOpen variable in this variant.

\* A start frame with no start object at all: msg.start.streamSid throws.
NoStartObject == TwFrame(TRUE, "start", Null, FALSE, "")
FetchTwilioFrames == TwilioFrames \cup {NoStartObject}

\* handleTwilio up to `await fetch(...)`.
FetchHandleTwilio(s) ==
    [s EXCEPT !.mode = "fetch", !.wsState = "open",
              !.oaiState = "connecting", !.oaiCreated = @ + 1]

\* handleTwilio after the await, resp.webSocket present: accept, configure
\* the session, send the initial prompt, declare streamSid, register the
\* listeners.
FetchConnected(s) ==
    oai_send(oai_send([s EXCEPT !.oaiState = "open", !.oaiOpened = TRUE,
                                !.streamSid = Null],
                      SessionUpdate),
             ResponseCreate)

\* handleTwilio after the await, resp.webSocket missing: ws.close(); return.
FetchNotConnected(s) == ws_close([s EXCEPT !.oaiState = "none"])

\* ws.on("message") of server.js: Twilio -> OpenAI, without a readiness
\* test; msg.start.streamSid and msg.media.payload throw inside the try
\* when start or media is missing.
FetchTwilioOnMessage(s, buf) ==
    LET r == JSONParse(buf) IN
    IF r.thrown THEN s
    ELSE LET msg == r.obj IN
         IF msg.event = "start"
         THEN IF msg.sid = Null THEN s ELSE [s EXCEPT !.streamSid = msg.sid]
         ELSE IF msg.event = "media" /\ Truthy(s.streamSid)
              THEN IF msg.media THEN oai_send(s, AudioAppend(msg.payload))
                   ELSE s
         ELSE IF msg.event = "stop" THEN ws_close(oai_close(s))
         ELSE s

\* oai.addEventListener("message") of server.js: OpenAI -> Twilio.
FetchOaiOnMessage(s, data) ==
    LET r == JSONParse(data) IN
    IF r.thrown THEN s
    ELSE LET obj == r.obj IN
         IF obj.type = "response.audio.delta" /\ Truthy(obj.delta) /\ Truthy(s.streamSid)
         THEN ws_send(s, MediaFrame(s.streamSid, obj.delta))
         ELSE s

\* oai.addEventListener("close", () => ws.close())
FetchOaiOnClose(s) == ws_close(s)
\* ws.on("close", () => oai.close())
FetchWsOnClose(s) == oai_close(s)

\* server.on("upgrade") of server.js.
FetchUpgrade ==
    /\ session.mode = "none"
    /\ session' = FetchHandleTwilio(session)

\* The awaited fetch resolves with a backend socket.
FetchResolved ==
    /\ session.mode = "fetch"
    /\ session.oaiState = "connecting"
    /\ session' = FetchConnected(session)

\* The awaited fetch resolves without a backend socket.
FetchNoSocket ==
    /\ session.mode = "fetch"
    /\ session.oaiState = "connecting"
    /\ session' = FetchNotConnected(session)

\* The awaited fetch rejects: handleTwilio's promise rejects and the upgrade
\* callback attaches no catch.  Depending on the Node version the unhandled
\* rejection ends the process or is only reported.
FetchRejected(exits) ==
    /\ session.mode = "fetch"
    /\ session.oaiState = "connecting"
    /\ session' = IF exits THEN ProcessExit(session)
                  ELSE [session EXCEPT !.oaiState = "none"]

\* A telephony frame arrives; it is handled only if the listener is
\* registered by then.
FetchTwilioMessage(buf) ==
    /\ session.mode = "fetch"
    /\ session.wsState \in {"open", "closing"}
    /\ Len(session.twIn) < MaxTwilioFrames
    /\ session' = IF session.oaiOpened
                  THEN FetchTwilioOnMessage(LogTwilio(session, buf), buf)
                  ELSE LogTwilio(session, buf)

\* The telephony socket emits "close" (once); the handler runs only if it
\* is registered by then.
FetchTwilioClose ==
    /\ session.mode = "fetch"
    /\ session.wsState \in {"open", "closing"}
    /\ session' = IF session.oaiOpened
                  THEN FetchWsOnClose([session EXCEPT !.wsState = "closed"])
                  ELSE [session EXCEPT !.wsState = "closed"]

\* The telephony socket emits "error": no listener at any time.
FetchTwilioError ==
    /\ session.mode = "fetch"
    /\ session.wsState \in {"open", "closing"}
    /\ session' = ProcessExit(session)

\* A backend frame arrives.
FetchOaiMessage(data) ==
    /\ session.mode = "fetch"
    /\ session.oaiState \in {"open", "closing"}
    /\ session.oaiCount < MaxBackendFrames
    /\ session' = FetchOaiOnMessage(
                      [session EXCEPT !.oaiCount = @ + 1, !.oaiLast = data], data)

\* The backend socket emits "close" (once).
FetchOaiClose ==
    /\ session.mode = "fetch"
    /\ session.oaiState \in {"open", "closing"}
    /\ session' = FetchOaiOnClose([session EXCEPT !.oaiState = "closed"])

FetchNext ==
    \/ FetchUpgrade
    \/ FetchResolved
    \/ FetchNoSocket
    \/ \E exits \in BOOLEAN : FetchRejected(exits)
    \/ \E buf \in FetchTwilioFrames : FetchTwilioMessage(buf)
    \/ FetchTwilioClose
    \/ FetchTwilioError
    \/ \E data \in BackendFrames : FetchOaiMessage(data)
    \/ FetchOaiClose

FetchSpec == Init /\ [][FetchNext]_vars

\* ------------------------------------------------- concurrent sessions
\* Several calls at once (part_000 48-168): the upgrade handler calls
\* handleTwilio once per accepted connection, and every call has its own
\* ws, oai, streamSid and oaiOpen.  Under MultiSpec `session` holds one
\* session record per call; the handlers are those of the single session.
\* The frame budgets are shared by the calls.
Calls == {"A", "B"}
MaxMultiTwilioFrames == 2   \* telephony frames delivered over all calls

MultiTwilioFrames ==
    {TwFrame(TRUE, "start", s, FALSE, "") : s \in Sids}
      \cup {TwFrame(TRUE, "media", Undefined, TRUE, "a")}
      \cup {TwFrame(TRUE, "stop", Undefined, FALSE, "")}
MultiBackendFrames == {OaiFrame(TRUE, "response.audio.delta", "a")}

\* Frames delivered so far over the calls of S.
RECURSIVE TwilioDelivered(_)
TwilioDelivered(S) ==
    IF S = {} THEN 0
    ELSE LET c == CHOOSE x \in S : TRUE
         IN Len(session[c].twIn) + TwilioDelivered(S \ {c})
RECURSIVE BackendDelivered(_)
BackendDelivered(S) ==
    IF S = {} THEN 0
    ELSE LET c == CHOOSE x \in S : TRUE
         IN session[c].oaiCount + BackendDelivered(S \ {c})

\* Variant in which streamSid is declared at module level instead of inside
\* handleTwilio: an assignment by one call is seen by every call.
Owned_SharedStreamSid(all, c, s) ==
    [d \in DOMAIN all |->
        IF d = c THEN s ELSE [all[d] EXCEPT !.streamSid = s.streamSid]]

\* The state a handler of call c writes is the state of call c: ws and req
\* are the arguments of that call, oai, streamSid and oaiOpen its locals.
Owned(all, c, s) == [all EXCEPT ![c] = s]

ProcessRunning == \A c \in Calls : session[c].wsState # "destroyed"

MultiInit == session = [c \in Calls |-> NoSession]

MultiUpgrade(c, loop) ==
    /\ ProcessRunning
    /\ session[c].mode = "none"
    /\ session' = Owned(session, c, handleTwilio(session[c], loop))

MultiTwilioMessage(c, buf) ==
    /\ session[c].wsState \in {"open", "closing"}
    /\ TwilioDelivered(Calls) < MaxMultiTwilioFrames
    /\ session' = Owned(session, c,
                        IF session[c].mode = "loopback"
                        THEN LoopbackOnMessage(LogTwilio(session[c], buf), buf)
                        ELSE TwilioOnMessage(LogTwilio(session[c], buf), buf))

MultiTwilioClose(c) ==
    /\ session[c].wsState \in {"open", "closing"}
    /\ session' = Owned(session, c,
                        IF session[c].mode = "loopback"
                        THEN [session[c] EXCEPT !.wsState = "closed"]
                        ELSE WsOnClose([session[c] EXCEPT !.wsState = "closed"]))

\* The uncaught exception ends the one process that serves every call.
MultiTwilioError(c) ==
    /\ session[c].wsState \in {"open", "closing"}
    /\ session' = [d \in Calls |-> ProcessExit(session[d])]

MultiOaiOpen(c) ==
    /\ session[c].oaiState = "connecting"
    /\ session' = Owned(session, c,
                        OaiOnOpen([session[c] EXCEPT !.oaiState = "open",
                                                     !.oaiOpened = TRUE]))

MultiOaiMessage(c, data) ==
    /\ session[c].oaiState \in {"open", "closing"}
    /\ BackendDelivered(Calls) < MaxBackendFrames
    /\ session' = Owned(session, c,
                        OaiOnMessage([session[c] EXCEPT !.oaiCount = @ + 1,
                                                        !.oaiLast = data], data))

MultiOaiError(c) ==
    /\ session[c].oaiState \in {"connecting", "aborting", "open", "closing"}
    /\ session' = Owned(session, c,
                        OaiOnError([session[c] EXCEPT !.oaiState = "errored"]))

MultiOaiClose(c) ==
    /\ session[c].oaiState \in {"open", "closing", "errored"}
    /\ session' = Owned(session, c,
                        OaiOnClose([session[c] EXCEPT !.oaiState = "closed"]))

MultiNext ==
    \/ \E c \in Calls, loop \in BOOLEAN : MultiUpgrade(c, loop)
    \/ \E c \in Calls, buf \in MultiTwilioFrames : MultiTwilioMessage(c, buf)
    \/ \E c \in Calls : MultiTwilioClose(c)
    \/ \E c \in Calls : MultiTwilioError(c)
    \/ \E c \in Calls : MultiOaiOpen(c)
    \/ \E c \in Calls, data \in MultiBackendFrames : MultiOaiMessage(c, data)
    \/ \E c \in Calls : MultiOaiError(c)
    \/ \E c \in Calls : MultiOaiClose(c)

MultiSpec == MultiInit /\ [][MultiNext]_vars

\* ---------------------------------------------------------- step shapes
\* The step handled telephony frame f / a backend frame.
TwilioStep == Len(session'.twIn) = Len(session.twIn) + 1
TwilioFrameOfStep == session'.twIn[Len(session'.twIn)]
BackendStep == session'.oaiCount = session.oaiCount + 1
IsAppend(m) == m.type = "input_audio_buffer.append"
WellFormedMedia(f) == f.json /\ f.event = "media" /\ f.media
WsCloseSinceStop == session.wsCloseCalls - session.wsCloseAtStop
OaiCloseSinceStop == session.oaiCloseCalls - session.oaiCloseAtStop

\* ---------------------------------------------------------------- claims

\* C1: in bridge mode an input_audio_buffer.append message is sent to the
\* backend only by the handling of a telephony media event, and only if at
\* that moment streamSid is set and oaiOpen is true.
C1_NoAppendBeforeReady ==
    [][\A i \in (Len(session.oaiSent) + 1) .. Len(session'.oaiSent) :
          IsAppend(session'.oaiSent[i]) =>
              /\ session.mode = "bridge"
              /\ TwilioStep
              /\ TwilioFrameOfStep.event = "media"
              /\ Truthy(session.streamSid)
              /\ session.oaiOpen]_vars

C1_Witness ==
    /\ session.mode = "bridge"
    /\ \E i \in 1 .. Len(session.oaiSent) : IsAppend(session.oaiSent[i])
    /\ \E i \in 1 .. Len(session.twIn) : session.twIn[i].event = "media"

\* C2: in a bridge session, the step in which the backend socket closes
\* issues a close request to the telephony socket, and the step in which
\* the telephony socket closes issues a close request to the backend
\* socket, also while the backend socket is still connecting.
C2_CloseCoupling ==
    [][/\ (session.mode = "bridge" /\ session.wsState # "closed"
              /\ session'.wsState = "closed")
            => session'.oaiCloseCalls = session.oaiCloseCalls + 1
       /\ (session.mode = "bridge" /\ session.oaiState # "closed"
              /\ session'.oaiState = "closed")
            => session'.wsCloseCalls = session.wsCloseCalls + 1]_vars

\* The telephony socket closed while the backend was connecting, and the
\* backend socket was asked to close (its handshake is being aborted).
C2_Witness ==
    /\ session.mode = "bridge"
    /\ session.wsState = "closed"
    /\ session.oaiState = "aborting"
    /\ ~session.oaiOpened
    /\ session.oaiCloseCalls = 1

\* C3 as stated: after a telephony stop event each connection has received
\* exactly one close request, counting those of the coupling handlers.
C3_ExactlyOneCloseEach ==
    (session.mode = "bridge" /\ session.stopSeen)
        => (WsCloseSinceStop = 1 /\ OaiCloseSinceStop = 1)

\* C3 (amended): in bridge mode the handling of a stop event issues exactly
\* one close request to the backend socket and exactly one to the telephony
\* socket; from then on each connection has received at least one close
\* request and neither is open (the coupling handlers may add further
\* close requests, which find the socket already closing).
C3_StopClosesBoth ==
    /\ []((session.mode = "bridge" /\ session.stopSeen)
            => /\ WsCloseSinceStop >= 1
               /\ OaiCloseSinceStop >= 1
               /\ session.wsState \in {"closing", "closed", "destroyed"}
               /\ session.oaiState \notin {"connecting", "open"})
    /\ [][(session.mode = "bridge" /\ TwilioStep /\ TwilioFrameOfStep.json
              /\ TwilioFrameOfStep.event = "stop")
            => /\ session'.wsCloseCalls = session.wsCloseCalls + 1
               /\ session'.oaiCloseCalls = session.oaiCloseCalls + 1]_vars

\* After a stop, the backend close handler asked the telephony socket to
\* close a second time.
C3_Witness ==
    /\ session.mode = "bridge"
    /\ session.stopSeen
    /\ session.oaiState = "closed"
    /\ WsCloseSinceStop = 2
    /\ OaiCloseSinceStop >= 1

\* C4: in loopback mode, after a start event carrying a stream id followed
\* by N well-formed media events, exactly N media frames have been sent to
\* the telephony socket, with the payloads of the media events in order and
\* the stream id of the start event.
StartThenMedia(h) ==
    /\ Len(h) >= 1
    /\ h[1].json /\ h[1].event = "start" /\ Truthy(h[1].sid)
    /\ \A i \in 2 .. Len(h) : WellFormedMedia(h[i])

C4_LoopbackEcho ==
    (session.mode = "loopback" /\ StartThenMedia(session.twIn))
        => session.wsSent =
              [i \in 1 .. (Len(session.twIn) - 1) |->
                  MediaFrame(session.twIn[1].sid, session.twIn[i + 1].payload)]

C4_Witness ==
    /\ session.mode = "loopback"
    /\ StartThenMedia(session.twIn)
    /\ Len(session.twIn) = 3
    /\ session.twIn[2].payload # session.twIn[3].payload
    /\ Len(session.wsSent) = 2

\* C5: a loopback session never creates a backend socket, never sends to
\* one and never asks one to close; the mode chosen when the session is
\* created never changes.
C5_LoopbackNoBackend ==
    /\ [](session.mode = "loopback"
            => /\ session.oaiCreated = 0
               /\ session.oaiState = "none"
               /\ session.oaiSent = <<>>
               /\ ~session.oaiOpen)
    /\ [][session.mode # "none" => session'.mode = session.mode]_vars

C5_Witness ==
    /\ session.mode = "loopback"
    /\ Len(session.twIn) = MaxTwilioFrames
    /\ \E i \in 1 .. Len(session.twIn) : session.twIn[i].event = "stop"
    /\ Len(session.wsSent) >= 1
    /\ session.wsState = "closed"

\* C6: in bridge mode a backend frame of type response.audio.delta with a
\* non-empty delta, handled while streamSid is set, sends exactly one media
\* frame with that delta and the recorded stream id to the telephony
\* socket; any other backend frame, and a delta handled while streamSid is
\* not set, sends none.
C6_DeltaForwarding ==
    [][(session.mode = "bridge" /\ BackendStep)
          => LET f == session'.oaiLast IN
             IF f.json /\ f.type = "response.audio.delta" /\ Truthy(f.delta)
                  /\ Truthy(session.streamSid)
             THEN session'.wsSent =
                      Append(session.wsSent, MediaFrame(session.streamSid, f.delta))
             ELSE session'.wsSent = session.wsSent]_vars

C6_Witness ==
    /\ session.mode = "bridge"
    /\ session.oaiCount >= 1
    /\ session.oaiLast.type = "response.audio.delta"
    /\ Len(session.wsSent) >= 1
    /\ session.wsSent[Len(session.wsSent)] =
           MediaFrame(session.streamSid, session.oaiLast.delta)

\* C7: the handling of a frame that is no JSON, on the telephony socket or
\* on the backend socket, leaves streamSid, oaiOpen and the mode unchanged,
\* sends nothing on either socket and asks neither socket to close.
NothingDone ==
    /\ session'.streamSid = session.streamSid
    /\ session'.oaiOpen = session.oaiOpen
    /\ session'.mode = session.mode
    /\ session'.wsSent = session.wsSent
    /\ session'.oaiSent = session.oaiSent
    /\ session'.wsCloseCalls = session.wsCloseCalls
    /\ session'.oaiCloseCalls = session.oaiCloseCalls
    /\ session'.wsState = session.wsState
    /\ session'.oaiState = session.oaiState

C7_NonJsonIgnored ==
    [][/\ (TwilioStep /\ ~TwilioFrameOfStep.json) => NothingDone
       /\ (BackendStep /\ ~session'.oaiLast.json) => NothingDone]_vars

\* A bridge session with both sockets open and a stream id that has handled
\* a non-JSON frame on each socket.
C7_Witness ==
    /\ session.mode = "bridge"
    /\ \E i \in 1 .. Len(session.twIn) : ~session.twIn[i].json
    /\ session.oaiCount >= 1 /\ ~session.oaiLast.json
    /\ Truthy(session.streamSid) /\ session.oaiOpen
    /\ session.wsState = "open" /\ session.oaiState = "open"

\* C8 as stated: once a start event has set streamSid, streamSid keeps the
\* value of that first start event whatever telephony events follow.
FirstSidSet(h) ==
    {i \in 1 .. Len(h) :
        /\ h[i].json /\ h[i].event = "start" /\ Truthy(h[i].sid)
        /\ \A j \in 1 .. (i - 1) :
               ~(h[j].json /\ h[j].event = "start" /\ Truthy(h[j].sid))}

C8_StreamSidImmutable ==
    \A i \in FirstSidSet(session.twIn) : session.streamSid = session.twIn[i].sid

\* C9: when the backend socket errors before it opened, the telephony
\* socket has been asked to close, oaiOpen is false, nothing was sent to the
\* backend, the backend socket never opens afterwards and no second backend
\* socket was created.
BackendFailedBeforeOpen ==
    /\ session.mode = "bridge"
    /\ session.oaiState \in {"errored", "closed"}
    /\ ~session.oaiOpened

C9_BackendFailureIsTerminal ==
    BackendFailedBeforeOpen
        => /\ session.wsCloseCalls >= 1
           /\ session.wsState \in {"closing", "closed", "destroyed"}
           /\ ~session.oaiOpen
           /\ session.oaiSent = <<>>
           /\ session.oaiCreated = 1

\* The connection attempt failed after a start and a media event had been
\* handled: the media event was not forwarded.
C9_Witness ==
    /\ BackendFailedBeforeOpen
    /\ session.oaiCloseCalls = 0
    /\ Truthy(session.streamSid)
    /\ \E i \in 1 .. Len(session.twIn) : WellFormedMedia(session.twIn[i])
    /\ Len(session.twIn) = MaxTwilioFrames

\* C10: in a bridge session whose backend socket opened, the first message
\* sent to the backend is session.update, the second is response.create,
\* and every later message is an input_audio_buffer.append; before the
\* socket opened nothing was sent.
C10_SetupSequence ==
    session.mode = "bridge" =>
        IF session.oaiOpened
        THEN /\ Len(session.oaiSent) >= 2
             /\ session.oaiSent[1] = SessionUpdate
             /\ session.oaiSent[2] = ResponseCreate
             /\ \A i \in 3 .. Len(session.oaiSent) : IsAppend(session.oaiSent[i])
        ELSE session.oaiSent = <<>>

C10_Witness ==
    /\ session.mode = "bridge"
    /\ session.oaiOpened
    /\ Len(session.oaiSent) = 4
    /\ IsAppend(session.oaiSent[3]) /\ IsAppend(session.oaiSent[4])

\* C11 as stated: once a session is closed (a stop event was handled, or
\* either socket closed or errored) no later step changes streamSid, sends
\* a media frame to the telephony socket or sends an append to the backend.
\* The stream id a value of streamSid stands for: null and undefined both
\* mean that none is known.
KnownSid(v) == IF Truthy(v) THEN v ELSE "unset"

Closed ==
    /\ session.mode # "none"
    /\ \/ session.stopSeen
       \/ session.wsState = "closed"
       \/ session.oaiState \in {"errored", "closed"}

C11_ClosedIsInert ==
    [][Closed => /\ KnownSid(session'.streamSid) = KnownSid(session.streamSid)
                 /\ session'.wsSent = session.wsSent
                 /\ session'.oaiSent = session.oaiSent]_vars

\* C12 as stated: in a bridge session the step in which the backend socket
\* emits "error" issues a close request to the telephony socket, and the
\* step in which the telephony socket emits "error" issues a close request
\* to the backend socket.
BackendErrorStep == session.oaiState # "errored" /\ session'.oaiState = "errored"
TelephonyErrorStep == session.wsState # "destroyed" /\ session'.wsState = "destroyed"

C12_ErrorCoupling ==
    [][session.mode = "bridge" =>
          /\ BackendErrorStep => session'.wsCloseCalls = session.wsCloseCalls + 1
          /\ TelephonyErrorStep => session'.oaiCloseCalls = session.oaiCloseCalls + 1]_vars

\* C13 as stated: the handling of a telephony frame that is JSON of an
\* unexpected shape (a start without start.streamSid, a media without a
\* media object, an unknown event) leaves the known stream id and oaiOpen
\* unchanged, sends nothing and asks neither socket to close.
UnexpectedShape(f) ==
    /\ f.json
    /\ \/ f.event = "start" /\ ~Truthy(f.sid)
       \/ f.event = "media" /\ ~f.media
       \/ f.event \notin {"start", "media", "stop"}

C13_UnexpectedShapeDiscarded ==
    [][(TwilioStep /\ UnexpectedShape(TwilioFrameOfStep))
          => /\ KnownSid(session'.streamSid) = KnownSid(session.streamSid)
             /\ session'.oaiOpen = session.oaiOpen
             /\ session'.wsSent = session.wsSent
             /\ session'.oaiSent = session.oaiSent
             /\ session'.wsCloseCalls = session.wsCloseCalls
             /\ session'.oaiCloseCalls = session.oaiCloseCalls]_vars

\* C14: in bridge mode the payloads of the appends sent to the backend are,
\* in order, a subsequence of the payloads of the media events handled;
\* an append is only sent by the step that handles a media event and then
\* carries that event's payload (at most one per event), so an event that
\* was dropped is not sent by a later step.
RECURSIVE IsSubseq(_, _)
IsSubseq(a, b) ==
    IF a = <<>> THEN TRUE
    ELSE IF b = <<>> THEN FALSE
    ELSE IF Head(a) = Head(b) THEN IsSubseq(Tail(a), Tail(b))
    ELSE IsSubseq(a, Tail(b))

AppendPayloads(out) ==
    LET sel == SelectSeq(out, IsAppend) IN [i \in 1 .. Len(sel) |-> sel[i].audio]
MediaPayloads(h) ==
    LET sel == SelectSeq(h, WellFormedMedia) IN [i \in 1 .. Len(sel) |-> sel[i].payload]

C14_AppendsFollowMedia ==
    /\ [](session.mode = "bridge"
            => IsSubseq(AppendPayloads(session.oaiSent), MediaPayloads(session.twIn)))
    /\ [][session.mode = "bridge" =>
            LET old == AppendPayloads(session.oaiSent)
                new == AppendPayloads(session'.oaiSent)
            IN  \/ new = old
                \/ /\ TwilioStep
                   /\ WellFormedMedia(TwilioFrameOfStep)
                   /\ new = Append(old, TwilioFrameOfStep.payload)]_vars

\* A media event was dropped (stream id unknown or backend not open); the
\* next one was forwarded and the dropped one was never sent.
C14_Witness ==
    /\ session.mode = "bridge"
    /\ MediaPayloads(session.twIn) = <<"a", "b">>
    /\ AppendPayloads(session.oaiSent) = <<"b">>

\* C15 as stated: in the fetch-based bridge, once the telephony socket has
\* closed and the backend connection is established, the backend socket
\* has received a close request, also when the telephony socket closed
\* while the connect was awaited.
C15_NoOrphanBackend ==
    (session.mode = "fetch" /\ session.wsState = "closed" /\ session.oaiOpened)
        => session.oaiCloseCalls >= 1

\* C16 as stated: in the fetch-based bridge, a start event delivered at any
\* time after the connection was accepted is recorded: when the delivered
\* start events all carry the same stream id, streamSid holds it.
DeliveredSids(h) ==
    {h[i].sid : i \in {j \in 1 .. Len(h) : h[j].json /\ h[j].event = "start"}}

C16_StartAlwaysRecorded ==
    \A sid \in Sids :
        (session.mode = "fetch" /\ DeliveredSids(session.twIn) = {sid})
            => session.streamSid = sid

\* C17: with two calls running under any interleaving, a step that changes
\* the state of one call leaves every other call's streamSid and oaiOpen
\* unchanged and makes no send() and no close() call on the other call's
\* sockets.
Effects(s) ==
    <<s.streamSid, s.oaiOpen, s.wsSent, s.oaiSent, s.wsCloseCalls, s.oaiCloseCalls>>

C17_SessionsIsolated ==
    [][\A c \in Calls, d \in Calls :
          (c # d /\ session'[c] # session[c])
              => Effects(session'[d]) = Effects(session[d])]_vars

\* Two bridge calls with different stream ids; call A's backend opened and
\* delivered a delta, which went to call A's telephony socket with call
\* A's stream id; nothing was sent on call B's sockets.
C17_Witness ==
    /\ session["A"].mode = "bridge" /\ session["B"].mode = "bridge"
    /\ session["A"].streamSid = "MZ1" /\ session["B"].streamSid = "MZ2"
    /\ session["A"].oaiOpen /\ ~session["B"].oaiOpen
    /\ session["A"].wsSent = <<MediaFrame("MZ1", "a")>>
    /\ session["B"].wsSent = <<>> /\ session["B"].oaiSent = <<>>

\* C18: in a bridge session, once a stop event was handled or either socket
\* closed, the session reaches, under fair delivery of the close events, a
\* state in which both sockets are closed; in that state no step issues
\* another close request, so the coupling handlers have stopped.
Quiescent ==
    /\ session.wsState \in {"closed", "destroyed"}
    /\ session.oaiState \in {"closed", "destroyed"}

TearDownStarted ==
    /\ session.mode = "bridge"
    /\ \/ session.stopSeen
       \/ session.wsState = "closed"
       \/ session.oaiState = "closed"

C18_TearDownTerminates ==
    /\ TearDownStarted ~> Quiescent
    /\ [][(session.mode = "bridge" /\ Quiescent)
            => /\ session'.wsCloseCalls = session.wsCloseCalls
               /\ session'.oaiCloseCalls = session.oaiCloseCalls
               /\ session'.wsState = session.wsState
               /\ session'.oaiState = session.oaiState]_vars

\* The telephony socket closed while the backend was open: each close
\* handler ran once, asked the other socket to close, and both are closed.
C18_Witness ==
    /\ session.mode = "bridge"
    /\ ~session.stopSeen
    /\ session.oaiOpened
    /\ session.wsState = "closed" /\ session.oaiState = "closed"
    /\ session.oaiCloseCalls = 1 /\ session.wsCloseCalls = 1
====
